---- MODULE Spec2Model ----
(***************************************************************************)
(* Model of the two tutorial programs of wt-learn-opengl:                  *)
(*   example-first-project/src/main.cpp   (window only, hasGeometry=FALSE) *)
(*   example-hello-triangle/src/main.cpp  (triangle,    hasGeometry=TRUE)  *)
(* main() is modelled statement group by statement group with a program    *)
(* counter pc; the GLFW/GL calls it makes are recorded in call logs.       *)
(* Outcomes of library calls (window creation, loader, compile and link    *)
(* status, events delivered by glfwPollEvents) are nondeterministic.       *)
(***************************************************************************)
EXTENDS Integers, Sequences, FiniteSets, TLC

VARIABLES
    hasGeometry,    \* TRUE: hello-triangle main.cpp, FALSE: first-project main.cpp
    pc,             \* position in main()
    window,         \* "unset" | "NULL" | "valid"   (GLFWwindow *window)
    loaded,         \* result of gladLoadGLLoader: "unset" | "ok" | "failed"
    shouldClose,    \* the window's close flag (glfwWindowShouldClose)
    keyEscape,      \* cached state of GLFW_KEY_ESCAPE: "RELEASE" | "PRESS"
    viewport,       \* <<x, y, w, h>> of the GL viewport
    clearColor,     \* <<r, g, b, a>> in thousandths (glClearColor state)
    shaders,        \* stage -> [state, attached, deletes]
    program,        \* [created, attached, link]
    successful,     \* int successful: "uninit" | "GL_TRUE" | "GL_FALSE"
    uploaded,       \* number of glBufferData uploads
    out,            \* lines written to std::cout
    setup,          \* GL/GLFW calls made before the render loop and after it
    ops,            \* GL/GLFW calls made by main in the current loop iteration
    iter,           \* loop iterations begun
    frames,         \* frames presented (glfwSwapBuffers returned)
    exitStatus,     \* "running" | "0" | "-1"   (value returned by main)
    cbArgs,         \* <<width, height>> of the resize being delivered, or <<>>
    escIter,        \* history: iteration whose input check saw Escape pressed, 0 if none
    closeIter       \* history: iteration in which the close flag became true, 0 if none

vars == <<hasGeometry, pc, window, loaded, shouldClose, keyEscape, viewport, clearColor,
          shaders, program, successful, uploaded, out, setup, ops, iter, frames,
          exitStatus, cbArgs, escIter, closeIter>>

\* Bound on the number of loop iterations explored.
MaxFrames == 3

WINDOW_WIDTH == 800
WINDOW_HEIGHT == 600
GL_TRIANGLES == 4

\* Framebuffer sizes glfwPollEvents may report (GLFW reports sizes >= 0).
Widths == {0, 400, 800}
Heights == {0, 300, 600}

Stages == {"vertex", "fragment"}

\* Object names handed out by the GL: shaders 1 and 2, program 3, VAO 1, VBO 1.
ShaderId(s) == IF s = "vertex" THEN 1 ELSE 2
ProgramId == 3
VAO == 1

MsgWindow == "Failed to create GLFW window"
MsgLoader == "Failed to initialize GLAD"
MsgCompile(s) ==
    IF s = "vertex" THEN "ERROR::SHADER::VERTEX::COMPILATION_FAILED"
                    ELSE "ERROR::SHADER::FRAGMENT::COMPILATION_FAILED"
MsgLink == "ERROR::SHADER::PROGRAM::LINKING_FAILED"

\* glClearColor arguments of the variant, in thousandths.
ConfiguredColor ==
    IF hasGeometry THEN <<200, 300, 300, 1000>> ELSE <<0, 145, 1000, 1000>>

Call(name, args) == [op |-> name, args |-> args]

\* glViewport(x, y, w, h): GL_INVALID_VALUE (no change) for a negative size.
glViewport(vp, x, y, w, h) ==
    IF w < 0 \/ h < 0 THEN vp ELSE <<x, y, w, h>>

Init ==
    /\ hasGeometry \in BOOLEAN
    /\ pc = "init"
    /\ window = "unset"
    /\ loaded = "unset"
    /\ shouldClose = FALSE
    /\ keyEscape = "RELEASE"
    /\ viewport = <<0, 0, 0, 0>>
    /\ clearColor = <<0, 0, 0, 0>>
    /\ shaders = [s \in Stages |-> [state |-> "none", attached |-> FALSE, deletes |-> 0]]
    /\ program = [created |-> FALSE, attached |-> {}, link |-> "none"]
    /\ successful = "uninit"
    /\ uploaded = 0
    /\ out = <<>>
    /\ setup = <<>>
    /\ ops = <<>>
    /\ iter = 0
    /\ frames = 0
    /\ exitStatus = "running"
    /\ cbArgs = <<>>
    /\ escIter = 0
    /\ closeIter = 0

loopVars == <<ops, iter, frames, cbArgs, escIter, closeIter>>
envVars == <<shouldClose, keyEscape, viewport, clearColor>>
buildVars == <<shaders, program, successful, uploaded>>

\* glfwInit, the window hints and glfwCreateWindow; the result of glfwInit is
\* not looked at, a failed init shows as a NULL window.
CreateWindow ==
    /\ pc = "init"
    /\ \E ok \in BOOLEAN : window' = IF ok THEN "valid" ELSE "NULL"
    /\ setup' = setup \o <<Call("glfwInit", <<>>), Call("glfwCreateWindow",
                             <<WINDOW_WIDTH, WINDOW_HEIGHT>>)>>
    /\ pc' = "checkWindow"
    /\ UNCHANGED <<hasGeometry, loaded, out, exitStatus>>
    /\ UNCHANGED <<loopVars, envVars, buildVars>>

\* Faulty variant of WindowFailed: returns -1 without glfwTerminate().
WindowFailed_NoTerminate ==
    /\ pc = "checkWindow"
    /\ window = "NULL"
    /\ out' = Append(out, MsgWindow)
    /\ exitStatus' = "-1"
    /\ pc' = "done"
    /\ UNCHANGED <<hasGeometry, window, loaded, setup>>
    /\ UNCHANGED <<loopVars, envVars, buildVars>>

\* if (window == NULL) { print; glfwTerminate(); return -1; }
WindowFailed ==
    /\ pc = "checkWindow"
    /\ window = "NULL"
    /\ out' = Append(out, MsgWindow)
    /\ setup' = Append(setup, Call("glfwTerminate", <<>>))
    /\ exitStatus' = "-1"
    /\ pc' = "done"
    /\ UNCHANGED <<hasGeometry, window, loaded>>
    /\ UNCHANGED <<loopVars, envVars, buildVars>>

\* glfwMakeContextCurrent + glfwSetFramebufferSizeCallback; a context made
\* current for the first time gets the window's size as its viewport.
MakeContextCurrent ==
    /\ pc = "checkWindow"
    /\ window = "valid"
    /\ viewport' = <<0, 0, WINDOW_WIDTH, WINDOW_HEIGHT>>
    /\ setup' = setup \o <<Call("glfwMakeContextCurrent", <<>>),
                           Call("glfwSetFramebufferSizeCallback", <<>>)>>
    /\ pc' = "loadGL"
    /\ UNCHANGED <<hasGeometry, window, loaded, out, exitStatus>>
    /\ UNCHANGED <<loopVars, buildVars, shouldClose, keyEscape, clearColor>>

\* Faulty variant of LoadGL: the failure is printed but main does not return.
LoadGL_NoReturn ==
    /\ pc = "loadGL"
    /\ \E ok \in BOOLEAN :
        /\ loaded' = IF ok THEN "ok" ELSE "failed"
        /\ out' = IF ok THEN out ELSE Append(out, MsgLoader)
    /\ pc' = IF hasGeometry THEN "vertexShader" ELSE "loop"
    /\ setup' = Append(setup, Call("gladLoadGLLoader", <<>>))
    /\ UNCHANGED <<hasGeometry, window, exitStatus>>
    /\ UNCHANGED <<loopVars, envVars, buildVars>>

\* if (!gladLoadGLLoader(...)) { print; return -1; }
LoadGL ==
    /\ pc = "loadGL"
    /\ \E ok \in BOOLEAN :
        IF ok
        THEN /\ loaded' = "ok"
             /\ pc' = IF hasGeometry THEN "vertexShader" ELSE "loop"
             /\ UNCHANGED <<out, exitStatus>>
        ELSE /\ loaded' = "failed"
             /\ out' = Append(out, MsgLoader)
             /\ exitStatus' = "-1"
             /\ pc' = "done"
    /\ setup' = Append(setup, Call("gladLoadGLLoader", <<>>))
    /\ UNCHANGED <<hasGeometry, window>>
    /\ UNCHANGED <<loopVars, envVars, buildVars>>

\* glCreateShader, glShaderSource, glCompileShader for stage s; the compile
\* outcome is the GL's.
CompileShader(s, at, next) ==
    /\ pc = at
    /\ \E ok \in BOOLEAN :
        shaders' = [shaders EXCEPT ![s].state = IF ok THEN "compiled" ELSE "failed"]
    /\ setup' = setup \o <<Call("glCreateShader", <<ShaderId(s)>>),
                           Call("glShaderSource", <<ShaderId(s)>>),
                           Call("glCompileShader", <<ShaderId(s)>>)>>
    /\ pc' = next
    /\ UNCHANGED <<hasGeometry, window, loaded, out, exitStatus, program, successful, uploaded>>
    /\ UNCHANGED <<loopVars, envVars>>

\* glGetShaderiv(s, GL_COMPILE_STATUS, &successful); if (!successful) print the log.
CheckCompile(s, at, next) ==
    /\ pc = at
    /\ LET status == IF shaders[s].state = "compiled" THEN "GL_TRUE" ELSE "GL_FALSE"
       IN  /\ successful' = status
           /\ IF status = "GL_FALSE"
              THEN /\ out' = Append(out, MsgCompile(s))
                   /\ setup' = setup \o <<Call("glGetShaderiv", <<ShaderId(s)>>),
                                          Call("glGetShaderInfoLog", <<ShaderId(s)>>)>>
              ELSE /\ out' = out
                   /\ setup' = Append(setup, Call("glGetShaderiv", <<ShaderId(s)>>))
    /\ pc' = next
    /\ UNCHANGED <<hasGeometry, window, loaded, exitStatus, shaders, program, uploaded>>
    /\ UNCHANGED <<loopVars, envVars>>

CompileVertex == CompileShader("vertex", "vertexShader", "checkVertex")
CheckVertex == CheckCompile("vertex", "checkVertex", "fragmentShader")
CompileFragment == CompileShader("fragment", "fragmentShader", "checkFragment")
CheckFragment == CheckCompile("fragment", "checkFragment", "link")

\* glCreateProgram, glAttachShader x2, glLinkProgram.  Linking fails when an
\* attached shader did not compile; otherwise the outcome is the GL's.
LinkProgram ==
    /\ pc = "link"
    /\ \E ok \in BOOLEAN :
        /\ ok => \A s \in Stages : shaders[s].state = "compiled"
        /\ program' = [created |-> TRUE, attached |-> Stages,
                       link |-> IF ok THEN "linked" ELSE "failed"]
    /\ shaders' = [s \in Stages |-> [shaders[s] EXCEPT !.attached = TRUE]]
    /\ setup' = setup \o <<Call("glCreateProgram", <<ProgramId>>),
                           Call("glAttachShader", <<ProgramId, ShaderId("vertex")>>),
                           Call("glAttachShader", <<ProgramId, ShaderId("fragment")>>),
                           Call("glLinkProgram", <<ProgramId>>)>>
    /\ pc' = "checkLink"
    /\ UNCHANGED <<hasGeometry, window, loaded, out, exitStatus, successful, uploaded>>
    /\ UNCHANGED <<loopVars, envVars>>

\* Faulty variant of CheckLink: a link failure ends main with -1.
CheckLink_Fatal ==
    /\ pc = "checkLink"
    /\ LET status == IF program.link = "linked" THEN "GL_TRUE" ELSE "GL_FALSE"
       IN  /\ successful' = status
           /\ IF status = "GL_FALSE"
              THEN /\ out' = Append(out, MsgLink)
                   /\ setup' = setup \o <<Call("glGetProgramiv", <<ProgramId>>),
                                          Call("glGetProgramInfoLog", <<ProgramId>>)>>
                   /\ exitStatus' = "-1"
                   /\ pc' = "done"
              ELSE /\ out' = out
                   /\ setup' = Append(setup, Call("glGetProgramiv", <<ProgramId>>))
                   /\ exitStatus' = exitStatus
                   /\ pc' = "deleteVertex"
    /\ UNCHANGED <<hasGeometry, window, loaded, shaders, program, uploaded>>
    /\ UNCHANGED <<loopVars, envVars>>

\* glGetProgramiv(GL_LINK_STATUS, &successful); if (!successful) print the log.
CheckLink ==
    /\ pc = "checkLink"
    /\ LET status == IF program.link = "linked" THEN "GL_TRUE" ELSE "GL_FALSE"
       IN  /\ successful' = status
           /\ IF status = "GL_FALSE"
              THEN /\ out' = Append(out, MsgLink)
                   /\ setup' = setup \o <<Call("glGetProgramiv", <<ProgramId>>),
                                          Call("glGetProgramInfoLog", <<ProgramId>>)>>
              ELSE /\ out' = out
                   /\ setup' = Append(setup, Call("glGetProgramiv", <<ProgramId>>))
    /\ pc' = "deleteVertex"
    /\ UNCHANGED <<hasGeometry, window, loaded, exitStatus, shaders, program, uploaded>>
    /\ UNCHANGED <<loopVars, envVars>>

\* glDeleteShader(s)
DeleteShader(s, at, next) ==
    /\ pc = at
    /\ shaders' = [shaders EXCEPT ![s].deletes = @ + 1]
    /\ setup' = Append(setup, Call("glDeleteShader", <<ShaderId(s)>>))
    /\ pc' = next
    /\ UNCHANGED <<hasGeometry, window, loaded, out, exitStatus, program, successful, uploaded>>
    /\ UNCHANGED <<loopVars, envVars>>

\* Faulty variant of DeleteFragmentShader: the vertex shader is deleted again.
DeleteFragmentShader_VertexAgain == DeleteShader("vertex", "deleteFragment", "geometry")

DeleteVertexShader == DeleteShader("vertex", "deleteVertex", "deleteFragment")
DeleteFragmentShader == DeleteShader("fragment", "deleteFragment", "geometry")

\* vertices[], glGenVertexArrays .. glBindVertexArray(0): one upload of 9 floats.
SetupGeometry ==
    /\ pc = "geometry"
    /\ uploaded' = uploaded + 1
    /\ setup' = setup \o <<Call("glGenVertexArrays", <<VAO>>),
                           Call("glGenBuffers", <<1>>),
                           Call("glBindVertexArray", <<VAO>>),
                           Call("glBindBuffer", <<1>>),
                           Call("glBufferData", <<9>>),
                           Call("glVertexAttribPointer", <<0, 3>>),
                           Call("glEnableVertexAttribArray", <<0>>),
                           Call("glBindBuffer", <<0>>),
                           Call("glBindVertexArray", <<0>>)>>
    /\ pc' = "loop"
    /\ UNCHANGED <<hasGeometry, window, loaded, out, exitStatus, shaders, program, successful>>
    /\ UNCHANGED <<loopVars, envVars>>

\* Faulty variant of LoopCond: the loop tests the Escape key, not the close flag.
LoopCond_KeyOnly ==
    /\ pc = "loop"
    /\ IF keyEscape # "PRESS"
       THEN /\ iter < MaxFrames
            /\ iter' = iter + 1
            /\ ops' = <<>>
            /\ pc' = "input"
       ELSE /\ pc' = "terminate"
            /\ UNCHANGED <<iter, ops>>
    /\ UNCHANGED <<hasGeometry, window, loaded, out, setup, exitStatus, frames, cbArgs,
                   escIter, closeIter>>
    /\ UNCHANGED <<envVars, buildVars>>

\* while (!glfwWindowShouldClose(window)): enter the body or leave the loop.
LoopCond ==
    /\ pc = "loop"
    /\ IF ~shouldClose
       THEN /\ iter < MaxFrames
            /\ iter' = iter + 1
            /\ ops' = <<>>
            /\ pc' = "input"
       ELSE /\ pc' = "terminate"
            /\ UNCHANGED <<iter, ops>>
    /\ UNCHANGED <<hasGeometry, window, loaded, out, setup, exitStatus, frames, cbArgs,
                   escIter, closeIter>>
    /\ UNCHANGED <<envVars, buildVars>>

\* Faulty variant of ProcessInput: leaves the loop at once (a break) when
\* Escape is pressed, instead of only setting the close flag.
ProcessInput_Break ==
    /\ pc = "input"
    /\ IF keyEscape = "PRESS"
       THEN /\ shouldClose' = TRUE
            /\ escIter' = iter
            /\ closeIter' = IF shouldClose THEN closeIter ELSE iter
            /\ pc' = "terminate"
       ELSE /\ pc' = "clear"
            /\ UNCHANGED <<shouldClose, escIter, closeIter>>
    /\ ops' = Append(ops, Call("processInput", <<>>))
    /\ UNCHANGED <<hasGeometry, window, loaded, out, setup, exitStatus, iter, frames, cbArgs>>
    /\ UNCHANGED <<keyEscape, viewport, clearColor, buildVars>>

\* processInput(window): Escape pressed => glfwSetWindowShouldClose(window, true).
ProcessInput ==
    /\ pc = "input"
    /\ IF keyEscape = "PRESS"
       THEN /\ shouldClose' = TRUE
            /\ escIter' = iter
            /\ closeIter' = IF shouldClose THEN closeIter ELSE iter
       ELSE UNCHANGED <<shouldClose, escIter, closeIter>>
    /\ ops' = Append(ops, Call("processInput", <<>>))
    /\ pc' = "clear"
    /\ UNCHANGED <<hasGeometry, window, loaded, out, setup, exitStatus, iter, frames, cbArgs>>
    /\ UNCHANGED <<keyEscape, viewport, clearColor, buildVars>>

\* Faulty variant of ClearFrame: glClear is called before glClearColor, so the
\* frame is cleared to the colour set earlier.
ClearFrame_ClearFirst ==
    /\ pc = "clear"
    /\ clearColor' = ConfiguredColor
    /\ ops' = ops \o <<Call("glClear", clearColor),
                       Call("glClearColor", ConfiguredColor)>>
    /\ pc' = IF hasGeometry THEN "draw" ELSE "poll"
    /\ UNCHANGED <<hasGeometry, window, loaded, out, setup, exitStatus, iter, frames, cbArgs,
                   escIter, closeIter>>
    /\ UNCHANGED <<shouldClose, keyEscape, viewport, buildVars>>

\* Faulty variant of ClearFrame: the draw section follows in both programs.
ClearFrame_AlwaysDraw ==
    /\ pc = "clear"
    /\ clearColor' = ConfiguredColor
    /\ ops' = ops \o <<Call("glClearColor", ConfiguredColor),
                       Call("glClear", clearColor')>>
    /\ pc' = "draw"
    /\ UNCHANGED <<hasGeometry, window, loaded, out, setup, exitStatus, iter, frames, cbArgs,
                   escIter, closeIter>>
    /\ UNCHANGED <<shouldClose, keyEscape, viewport, buildVars>>

\* glClearColor(configured colour); glClear(GL_COLOR_BUFFER_BIT);
\* glClear is logged with the colour it clears to.
ClearFrame ==
    /\ pc = "clear"
    /\ clearColor' = ConfiguredColor
    /\ ops' = ops \o <<Call("glClearColor", ConfiguredColor),
                       Call("glClear", clearColor')>>
    /\ pc' = IF hasGeometry THEN "draw" ELSE "poll"
    /\ UNCHANGED <<hasGeometry, window, loaded, out, setup, exitStatus, iter, frames, cbArgs,
                   escIter, closeIter>>
    /\ UNCHANGED <<shouldClose, keyEscape, viewport, buildVars>>

\* Faulty variant of DrawTriangle: the draw call is issued before the vertex
\* array is bound.
DrawTriangle_DrawBeforeBind ==
    /\ pc = "draw"
    /\ ops' = ops \o <<Call("glUseProgram", <<ProgramId>>),
                       Call("glDrawArrays", <<GL_TRIANGLES, 0, 3>>),
                       Call("glBindVertexArray", <<VAO>>)>>
    /\ pc' = "poll"
    /\ UNCHANGED <<hasGeometry, window, loaded, out, setup, exitStatus, iter, frames, cbArgs,
                   escIter, closeIter>>
    /\ UNCHANGED <<envVars, buildVars>>

\* glUseProgram(shaderProgram); glBindVertexArray(VAO); glDrawArrays(GL_TRIANGLES, 0, 3);
DrawTriangle ==
    /\ pc = "draw"
    /\ ops' = ops \o <<Call("glUseProgram", <<ProgramId>>),
                       Call("glBindVertexArray", <<VAO>>),
                       Call("glDrawArrays", <<GL_TRIANGLES, 0, 3>>)>>
    /\ pc' = "poll"
    /\ UNCHANGED <<hasGeometry, window, loaded, out, setup, exitStatus, iter, frames, cbArgs,
                   escIter, closeIter>>
    /\ UNCHANGED <<envVars, buildVars>>

\* glfwPollEvents(): the pending events update the cached key state, may set
\* the close flag, and may deliver one framebuffer resize to the callback.
PollEvents ==
    /\ pc = "poll"
    /\ \E key \in {"PRESS", "RELEASE"}, close \in BOOLEAN,
          resize \in {<<>>} \cup (Widths \X Heights) :
        /\ keyEscape' = key
        /\ shouldClose' = (shouldClose \/ close)
        /\ closeIter' = IF ~shouldClose /\ close THEN iter ELSE closeIter
        /\ cbArgs' = resize
        /\ pc' = IF resize = <<>> THEN "swap" ELSE "callback"
    /\ ops' = Append(ops, Call("glfwPollEvents", <<>>))
    /\ UNCHANGED <<hasGeometry, window, loaded, out, setup, exitStatus, iter, frames, escIter>>
    /\ UNCHANGED <<viewport, clearColor, buildVars>>

\* Faulty variant of framebufferSizeCallback: width and height are swapped.
framebufferSizeCallback_Swapped ==
    /\ pc = "callback"
    /\ viewport' = glViewport(viewport, 0, 0, cbArgs[2], cbArgs[1])
    /\ pc' = "swap"
    /\ UNCHANGED <<hasGeometry, window, loaded, out, setup, exitStatus>>
    /\ UNCHANGED <<loopVars, buildVars, shouldClose, keyEscape, clearColor>>

\* framebufferSizeCallback(window, width, height), called from glfwPollEvents.
framebufferSizeCallback ==
    /\ pc = "callback"
    /\ viewport' = glViewport(viewport, 0, 0, cbArgs[1], cbArgs[2])
    /\ pc' = "swap"
    /\ UNCHANGED <<hasGeometry, window, loaded, out, setup, exitStatus>>
    /\ UNCHANGED <<loopVars, buildVars, shouldClose, keyEscape, clearColor>>

\* glfwSwapBuffers(window): the frame is presented.
SwapBuffers ==
    /\ pc = "swap"
    /\ frames' = frames + 1
    /\ ops' = Append(ops, Call("glfwSwapBuffers", <<>>))
    /\ pc' = "loop"
    /\ UNCHANGED <<hasGeometry, window, loaded, out, setup, exitStatus, iter, cbArgs,
                   escIter, closeIter>>
    /\ UNCHANGED <<envVars, buildVars>>

\* glfwTerminate(); return EXIT_SUCCESS;
Terminate ==
    /\ pc = "terminate"
    /\ setup' = Append(setup, Call("glfwTerminate", <<>>))
    /\ exitStatus' = "0"
    /\ pc' = "done"
    /\ UNCHANGED <<hasGeometry, window, loaded, out>>
    /\ UNCHANGED <<loopVars, envVars, buildVars>>

Next ==
    \/ CreateWindow
    \/ WindowFailed
    \/ MakeContextCurrent
    \/ LoadGL
    \/ CompileVertex
    \/ CheckVertex
    \/ CompileFragment
    \/ CheckFragment
    \/ LinkProgram
    \/ CheckLink
    \/ DeleteVertexShader
    \/ DeleteFragmentShader
    \/ SetupGeometry
    \/ LoopCond
    \/ ProcessInput
    \/ ClearFrame
    \/ DrawTriangle
    \/ PollEvents
    \/ framebufferSizeCallback
    \/ SwapBuffers
    \/ Terminate

Spec == Init /\ [][Next]_vars

TypeOK ==
    /\ hasGeometry \in BOOLEAN
    /\ window \in {"unset", "NULL", "valid"}
    /\ loaded \in {"unset", "ok", "failed"}
    /\ shouldClose \in BOOLEAN
    /\ keyEscape \in {"PRESS", "RELEASE"}
    /\ successful \in {"uninit", "GL_TRUE", "GL_FALSE"}
    /\ exitStatus \in {"running", "0", "-1"}
    /\ iter \in 0..MaxFrames /\ frames \in 0..MaxFrames

(***************************************************************************)
(* Properties                                                              *)
(***************************************************************************)

\* Positions of main(): inside the loop body, and at or after the loop test.
BodyPcs == {"input", "clear", "draw", "poll", "callback", "swap"}
AfterFramePcs == {"loop", "terminate", "done"}

Count(s, name) == Len(SelectSeq(s, LAMBDA c : c.op = name))
Names(s) == [i \in 1..Len(s) |-> s[i].op]
IndexOf(s, name) == CHOOSE i \in 1..Len(s) : s[i].op = name

\* The steps of one iteration, as the frame contract lists them.
FrameSteps ==
    <<Call("processInput", <<>>),
      Call("glClearColor", ConfiguredColor),
      Call("glClear", ConfiguredColor)>>
    \o (IF hasGeometry
        THEN <<Call("glUseProgram", <<ProgramId>>),
               Call("glBindVertexArray", <<VAO>>),
               Call("glDrawArrays", <<GL_TRIANGLES, 0, 3>>)>>
        ELSE <<>>)
    \o <<Call("glfwPollEvents", <<>>), Call("glfwSwapBuffers", <<>>)>>

\* C1: in both variants every loop iteration performs input check, clear to
\* the configured colour, (triangle only) program bind, vertex-array bind and
\* draw, event poll, buffer swap, in that order and each exactly once; no
\* step of iteration n+1 starts before the swap of iteration n: the calls of
\* the current iteration are always a prefix of that sequence, the whole
\* sequence once the iteration is over, and inside iteration n exactly n-1
\* frames have been presented.
C1_FrameOrder ==
    /\ Len(ops) <= Len(FrameSteps)
    /\ ops = SubSeq(FrameSteps, 1, Len(ops))
    /\ (pc \in AfterFramePcs /\ iter >= 1) => ops = FrameSteps
    /\ pc \in BodyPcs => (iter >= 1 /\ frames = iter - 1)
    /\ pc \in AfterFramePcs => frames = iter

C1_Witness ==
    /\ hasGeometry
    /\ pc = "loop"
    /\ iter = 2
    /\ frames = 2
    /\ ops = FrameSteps

\* C2: when Escape is seen pressed at the input check of an iteration, that
\* iteration still runs to its swap, no further iteration begins, and the
\* loop is left at the next loop test with no further frame produced.
C2_EscapeEndsLoopAfterFrame ==
    escIter # 0 =>
        /\ shouldClose
        /\ iter = escIter
        /\ pc \in (BodyPcs \ {"input"}) \cup AfterFramePcs
        /\ pc \in BodyPcs => frames = escIter - 1
        /\ pc \in AfterFramePcs => (frames = escIter /\ ops = FrameSteps)

C2_Witness ==
    /\ escIter = 2
    /\ pc = "done"
    /\ frames = 2
    /\ exitStatus = "0"

\* C3: in the triangle variant every completed iteration issues exactly one
\* draw call, glDrawArrays(GL_TRIANGLES, 0, 3), and in that iteration the
\* shader program and then the vertex array are bound after the clear and
\* before the draw.
C3_OneDrawPerFrame ==
    hasGeometry =>
        /\ Count(ops, "glDrawArrays") <= 1
        /\ (pc \in AfterFramePcs /\ iter >= 1) =>
            /\ Count(ops, "glDrawArrays") = 1
            /\ Count(ops, "glUseProgram") = 1
            /\ Count(ops, "glBindVertexArray") = 1
            /\ Count(ops, "glClear") = 1
            /\ ops[IndexOf(ops, "glDrawArrays")].args = <<GL_TRIANGLES, 0, 3>>
            /\ ops[IndexOf(ops, "glUseProgram")].args = <<ProgramId>>
            /\ ops[IndexOf(ops, "glBindVertexArray")].args = <<VAO>>
            /\ IndexOf(ops, "glClear") < IndexOf(ops, "glUseProgram")
            /\ IndexOf(ops, "glUseProgram") < IndexOf(ops, "glBindVertexArray")
            /\ IndexOf(ops, "glBindVertexArray") < IndexOf(ops, "glDrawArrays")

C3_Witness ==
    /\ hasGeometry
    /\ pc = "loop"
    /\ frames = 3
    /\ Count(ops, "glDrawArrays") = 1

\* C4: in the window-only variant no draw call, program bind or vertex-array
\* bind is ever issued; an iteration is input check, clear, poll and swap.
C4_WindowOnlyNeverDraws ==
    ~hasGeometry =>
        /\ \A name \in {"glDrawArrays", "glUseProgram", "glBindVertexArray"} :
               Count(ops, name) = 0 /\ Count(setup, name) = 0
        /\ pc # "draw"
        /\ (pc \in AfterFramePcs /\ iter >= 1) =>
               Names(ops) = <<"processInput", "glClearColor", "glClear",
                              "glfwPollEvents", "glfwSwapBuffers">>

C4_Witness ==
    /\ ~hasGeometry
    /\ pc = "done"
    /\ frames = 2
    /\ exitStatus = "0"
    /\ Len(ops) = 5
LastOf(s) == s[Len(s)]
Printed == {out[i] : i \in 1..Len(out)}
Terminated == Count(setup, "glfwTerminate") >= 1

\* A call c that names shader object id.
References(c, id) ==
    \/ /\ c.op \in {"glShaderSource", "glCompileShader", "glGetShaderiv",
                    "glGetShaderInfoLog", "glDeleteShader"}
       /\ c.args[1] = id
    \/ /\ c.op = "glAttachShader"
       /\ c.args[2] = id

\* C5: main returns 0 exactly when the loop was entered and left through the
\* close flag and glfwTerminate followed; it returns -1 when window creation
\* or entry-point loading fails, and on those two paths exactly one message
\* is printed and no shader is compiled, no buffer uploaded and no iteration
\* run.
C5_ExitStatus ==
    pc = "done" =>
        /\ exitStatus = "0" <=>
               (iter >= 1 /\ shouldClose /\ Terminated
                /\ LastOf(setup) = Call("glfwTerminate", <<>>))
        /\ (window = "NULL" \/ loaded = "failed") => exitStatus = "-1"
        /\ exitStatus = "-1" =>
               /\ out = <<IF window = "NULL" THEN MsgWindow ELSE MsgLoader>>
               /\ \A s \in Stages : shaders[s].state = "none"
               /\ Count(setup, "glCompileShader") = 0
               /\ ~program.created
               /\ uploaded = 0
               /\ iter = 0 /\ frames = 0 /\ ops = <<>>

C5_Witness ==
    /\ pc = "done"
    /\ loaded = "failed"
    /\ exitStatus = "-1"
    /\ out = <<MsgLoader>>

\* C6: shader build failures are never fatal: whatever the compile and link
\* outcomes, both stages are compiled and attached, the program is linked,
\* the loop is entered and draws with the program each frame, and main
\* returns 0 on close; a diagnostic is printed for a step exactly when the
\* status read for that step is GL_FALSE.
C6_ShaderErrorsNotFatal ==
    /\ pc = "fragmentShader" =>
           (successful = "GL_FALSE" <=> MsgCompile("vertex") \in Printed)
    /\ pc = "link" =>
           (successful = "GL_FALSE" <=> MsgCompile("fragment") \in Printed)
    /\ pc = "deleteVertex" => (successful = "GL_FALSE" <=> MsgLink \in Printed)
    /\ (hasGeometry /\ loaded = "ok" /\ pc \in BodyPcs \cup AfterFramePcs) =>
           /\ \A s \in Stages :
                  /\ shaders[s].state \in {"compiled", "failed"}
                  /\ shaders[s].attached
                  /\ (shaders[s].state = "failed" <=> MsgCompile(s) \in Printed)
           /\ Count(setup, "glCompileShader") = 2
           /\ Count(setup, "glAttachShader") = 2
           /\ Count(setup, "glLinkProgram") = 1
           /\ program.attached = Stages
           /\ program.link \in {"linked", "failed"}
           /\ (program.link = "failed" <=> MsgLink \in Printed)
           /\ (pc \in AfterFramePcs /\ iter >= 1) =>
                  /\ Call("glUseProgram", <<ProgramId>>) \in {ops[i] : i \in 1..Len(ops)}
                  /\ Count(ops, "glDrawArrays") = 1
           /\ pc = "done" => (iter >= 1 /\ exitStatus = "0")

C6_Witness ==
    /\ hasGeometry
    /\ pc = "done"
    /\ exitStatus = "0"
    /\ frames >= 1
    /\ \A s \in Stages : shaders[s].state = "failed"
    /\ program.link = "failed"
    /\ out = <<MsgCompile("vertex"), MsgCompile("fragment"), MsgLink>>

\* C7: each of the two shader objects is deleted exactly once, after the
\* link and the read of its status, whatever the compile and link outcomes,
\* and before the first iteration; no call names a shader object after its
\* glDeleteShader.
C7_ShadersDeletedOnce ==
    /\ \A s \in Stages :
           /\ shaders[s].deletes <= 1
           /\ shaders[s].deletes = Len(SelectSeq(setup,
                  LAMBDA c : c = Call("glDeleteShader", <<ShaderId(s)>>)))
           /\ (hasGeometry /\ loaded = "ok" /\ pc \in BodyPcs \cup AfterFramePcs) =>
                  shaders[s].deletes = 1
           /\ iter >= 1 => shaders[s].deletes = IF hasGeometry THEN 1 ELSE 0
    /\ \A i \in 1..Len(setup) :
           setup[i].op = "glDeleteShader" =>
               /\ \E j \in 1..(i - 1) : setup[j].op = "glLinkProgram"
               /\ \E j \in 1..(i - 1) : setup[j].op = "glGetProgramiv"
               /\ \A k \in (i + 1)..Len(setup) : ~References(setup[k], setup[i].args[1])

C7_Witness ==
    /\ hasGeometry
    /\ pc = "input"
    /\ iter = 1
    /\ program.link = "failed"
    /\ shaders["vertex"].state = "failed"
    /\ \A s \in Stages : shaders[s].deletes = 1

\* C8: triangle variant, startup succeeding and close signalled at once (the
\* close flag is set in the first iteration): the run compiles exactly two
\* shaders, links exactly one program, completes at most one iteration and
\* presents at most one frame, calls glfwTerminate and returns 0.
C8_ImmediateClose ==
    (hasGeometry /\ closeIter = 1 /\ pc = "done") =>
        /\ Count(setup, "glCompileShader") = 2
        /\ Count(setup, "glLinkProgram") = 1
        /\ iter <= 1
        /\ frames <= 1
        /\ Count(setup, "glfwTerminate") = 1
        /\ exitStatus = "0"

C8_Witness ==
    /\ hasGeometry
    /\ closeIter = 1
    /\ escIter = 0
    /\ pc = "done"
    /\ frames = 1
    /\ exitStatus = "0"

\* C9: for every width w and height h delivered to the framebuffer-size
\* callback, the viewport after the callback is origin (0,0), size (w,h), and
\* the callback changes nothing else (close flag, key state, clear colour,
\* shader objects, program, uploaded buffer).
C9_ViewportCallback ==
    [][pc = "callback" =>
          /\ viewport' = <<0, 0, cbArgs[1], cbArgs[2]>>
          /\ UNCHANGED <<shouldClose, keyEscape, clearColor, shaders, program, uploaded>>
      ]_vars

C9_Witness ==
    /\ pc = "swap"
    /\ cbArgs = <<400, 300>>
    /\ viewport = <<0, 0, 400, 300>>

\* C10: glfwTerminate is called at most once and is then the last GLFW/GL
\* call of the run; it is called on the normal exit and when window creation
\* fails, and not when entry-point loading fails, where main returns -1 with
\* the window still created.
C10_TerminateOnceAndLast ==
    /\ Count(setup, "glfwTerminate") <= 1
    /\ Terminated => (pc = "done" /\ LastOf(setup).op = "glfwTerminate")
    /\ pc = "done" => (Terminated <=> loaded # "failed")
    /\ (pc = "done" /\ window = "NULL") => Terminated
    /\ (pc = "done" /\ exitStatus = "0") => Terminated
    /\ (pc = "done" /\ loaded = "failed") =>
           (~Terminated /\ exitStatus = "-1" /\ window = "valid")

C10_Witness ==
    /\ pc = "done"
    /\ window = "NULL"
    /\ Terminated
    /\ exitStatus = "-1"

====
